---- MODULE Spec2Model ----
(***************************************************************************)
(* A model of habitica_seed.py: one run of main() that creates a single   *)
(* Habitica Todo for (today in America/Los_Angeles) + OFFSET_DAYS.         *)
(*                                                                         *)
(* Text the program formats or inspects (the title, the ISO timestamp) is  *)
(* a sequence of one-character strings, so that formatting is computed     *)
(* and can be parsed back.  Opaque text (quotes, ids, response bodies) is  *)
(* a TLA+ string.  Non-ASCII characters of the source's literals are       *)
(* written in ASCII ("--" for the em dash).                                *)
(***************************************************************************)
EXTENDS Integers, Sequences, FiniteSets, TLC

VARIABLES
    USER_ID,        \* os.getenv("HABITICA_USER_ID"): "None", "" or a value
    API_TOKEN,      \* os.getenv("HABITICA_API_TOKEN")
    OFFSET_DAYS,    \* int(os.getenv("OFFSET_DAYS", "30"))
    QUOTES_SOURCE,  \* os.getenv("QUOTES_SOURCE", "repo").lower()
    DEBUG,          \* the debug flag
    zoneDb,         \* "ok", "no_module" (ZoneInfo is None), "no_tzdata" (ZoneInfo(...) raises)
    nowUtc,         \* the instant of the run, in hours since ordinal day 0, UTC
    procTz,         \* UTC offset (hours) of the process's own local time zone
    quotesFile,     \* quotes.json: [state, pool]
    server,         \* how the task API answers: [status, id, text]
    pc,             \* position of main
    today_pacific,  \* main's today_pacific, a date [year, month, day]
    due,            \* main's due
    payload,        \* main's payload
    quoteVia,       \* which return of fetch_quote produced the notes
    result,         \* main's result (resp.json())
    out,            \* the lines printed so far
    posts,          \* the payloads POSTed to API_URL so far
    tasks,          \* the Todos the service has created
    exitCode        \* the process's exit status, -1 while running

vars == <<USER_ID, API_TOKEN, OFFSET_DAYS, QUOTES_SOURCE, DEBUG, zoneDb, nowUtc,
          procTz, quotesFile, server, pc, today_pacific, due, payload, quoteVia,
          result, out, posts, tasks, exitCode>>

config == <<USER_ID, API_TOKEN, OFFSET_DAYS, QUOTES_SOURCE, DEBUG>>
environment == <<zoneDb, nowUtc, procTz, quotesFile, server>>

----
\* Bounds of the model.

\* OFFSET_DAYS ranges over -MaxOffset..MaxOffset and the default.
MaxOffset == 2
\* The run happens on an anchor day or up to DayWindow days after it.
DayWindow == 1
\* quotes.json holds a list of at most MaxPoolLen elements.
MaxPoolLen == 2

\* Program constants.
DefaultOffsetDays == 30
NoonHour == 12
HardPriority == 2

----
\* Calendar arithmetic of datetime.date (proleptic Gregorian ordinals).

IsLeap(y) == (y % 4 = 0) /\ ((y % 100 # 0) \/ (y % 400 = 0))

DaysInMonth(y, m) ==
    IF m = 2 THEN (IF IsLeap(y) THEN 29 ELSE 28)
    ELSE IF m \in {4, 6, 9, 11} THEN 30 ELSE 31

DaysBeforeYear(y) ==
    LET p == y - 1 IN p * 365 + (p \div 4) - (p \div 100) + (p \div 400)

RECURSIVE DaysBeforeMonth(_, _)
DaysBeforeMonth(y, m) ==
    IF m = 1 THEN 0 ELSE DaysBeforeMonth(y, m - 1) + DaysInMonth(y, m - 1)

\* date.toordinal()
ToOrdinal(d) == DaysBeforeYear(d.year) + DaysBeforeMonth(d.year, d.month) + d.day

\* date.fromordinal(n), by the 400/100/4/1-year cycle decomposition
FromOrdinal(n) ==
    LET n0   == n - 1
        n400 == n0 \div 146097
        r400 == n0 % 146097
        n100 == r400 \div 36524
        r100 == r400 % 36524
        n4   == r100 \div 1461
        r4   == r100 % 1461
        n1   == r4 \div 365
        r1   == r4 % 365
        y    == n400 * 400 + n100 * 100 + n4 * 4 + n1 + 1
    IN IF n1 = 4 \/ n100 = 4
       THEN [year |-> y - 1, month |-> 12, day |-> 31]
       ELSE LET m == CHOOSE k \in 1..12 :
                        /\ DaysBeforeMonth(y, k) <= r1
                        /\ r1 < DaysBeforeMonth(y, k) + DaysInMonth(y, k)
            IN [year |-> y, month |-> m, day |-> r1 - DaysBeforeMonth(y, m) + 1]

\* date + timedelta(days = n)
AddDays(d, n) == FromOrdinal(ToOrdinal(d) + n)

\* date.weekday(): Monday is 0, Sunday is 6
Weekday(d) == (ToOrdinal(d) + 6) % 7

----
\* America/Los_Angeles (the tz database's rule since 2007): PDT, UTC-7, from
\* the second Sunday of March 10:00 UTC to the first Sunday of November
\* 09:00 UTC, and PST, UTC-8, otherwise.

FirstSundayFrom(ord) == ord + ((6 - ((ord + 6) % 7)) % 7)

PacificUtcOffset(t) ==
    LET y     == FromOrdinal(t \div 24).year
        start == (FirstSundayFrom(ToOrdinal([year |-> y, month |-> 3, day |-> 1])) + 7) * 24 + 10
        end   == FirstSundayFrom(ToOrdinal([year |-> y, month |-> 11, day |-> 1])) * 24 + 9
    IN IF start <= t /\ t < end THEN -7 ELSE -8

\* datetime.now(tz) for a zone of the given UTC offset at instant t
DatetimeAt(t, off) ==
    LET loc == t + off
        d   == FromOrdinal(loc \div 24)
    IN [year |-> d.year, month |-> d.month, day |-> d.day,
        hour |-> loc % 24, minute |-> 0, second |-> 0]

\* datetime.date()
DateOf(dt) == [year |-> dt.year, month |-> dt.month, day |-> dt.day]

----
\* Text.

Digits == <<"0", "1", "2", "3", "4", "5", "6", "7", "8", "9">>
Digit(n) == Digits[n + 1]
Pad2(n) == <<Digit((n \div 10) % 10), Digit(n % 10)>>
Pad4(n) == <<Digit((n \div 1000) % 10), Digit((n \div 100) % 10)>> \o Pad2(n % 100)

LowerAlpha == <<"a", "b", "c", "d", "e", "f", "g", "h", "i", "j", "k", "l", "m",
                "n", "o", "p", "q", "r", "s", "t", "u", "v", "w", "x", "y", "z">>
UpperAlpha == <<"A", "B", "C", "D", "E", "F", "G", "H", "I", "J", "K", "L", "M",
                "N", "O", "P", "Q", "R", "S", "T", "U", "V", "W", "X", "Y", "Z">>

UpperChar(c) ==
    IF \E i \in 1..26 : LowerAlpha[i] = c
    THEN UpperAlpha[CHOOSE i \in 1..26 : LowerAlpha[i] = c]
    ELSE c

\* str.upper()
Upper(s) == [i \in 1..Len(s) |-> UpperChar(s[i])]

\* strftime("%A") in the C locale, indexed by weekday() + 1
DayNames == <<
    <<"M", "o", "n", "d", "a", "y">>,
    <<"T", "u", "e", "s", "d", "a", "y">>,
    <<"W", "e", "d", "n", "e", "s", "d", "a", "y">>,
    <<"T", "h", "u", "r", "s", "d", "a", "y">>,
    <<"F", "r", "i", "d", "a", "y">>,
    <<"S", "a", "t", "u", "r", "d", "a", "y">>,
    <<"S", "u", "n", "d", "a", "y">> >>

StrftimeA(d) == DayNames[Weekday(d) + 1]

\* strftime("%Y-%m-%dT%H:%M:%S.000Z")
StrftimeIso(dt) ==
    Pad4(dt.year) \o <<"-">> \o Pad2(dt.month) \o <<"-">> \o Pad2(dt.day) \o <<"T">>
    \o Pad2(dt.hour) \o <<":">> \o Pad2(dt.minute) \o <<":">> \o Pad2(dt.second)
    \o <<".", "0", "0", "0", "Z">>

----
\* Values.

None == "<None>"
\* Python truthiness of an environment string: None and "" are falsy.
Falsy(v) == v \in {None, ""}

\* JSON values, as json.load returns them.
JStr(s) == [t |-> "str", v |-> s, items |-> <<>>]
JNull == [t |-> "null", v |-> "null", items |-> <<>>]
JDict == [t |-> "dict", v |-> "{...}", items |-> <<>>]
JList(xs) == [t |-> "list", v |-> "[...]", items |-> xs]

NoDate == [year |-> 0, month |-> 0, day |-> 0]
NoPayload == [type |-> "", text |-> <<>>, notes |-> JNull, date |-> <<>>,
              checklist |-> <<>>, priority |-> 0]
NoResult == [data |-> [id |-> ""]]

API_URL == "https://habitica.com/api/v3/tasks/user"
REPO_QUOTES_PATH == "quotes.json"

CHECKLIST_ITEMS == <<"## Work", "--- (tomato)", "## Family", "-", "## Friends", "-",
                     "## Health", "-">>

LOCAL_QUOTES == <<
    "Tiny wins are still progress -- celebrate them.",
    "Do the thing you told yourself you'd do yesterday.",
    "Progress > perfection. One step counts.",
    "Breathe. Focus. Ship something small.",
    "Treat today like a project you can finish." >>

Line(tag, arg) == [tag |-> tag, arg |-> arg]
\* print(...) under "if DEBUG"
DebugLine(debug, tag, arg) == IF debug THEN <<Line(tag, arg)>> ELSE <<>>

----
\* fetch_quote(source): the set of its possible outcomes, each the returned
\* quote, the return statement that produced it and the lines printed.
\* random.choice picks any index of its argument.

Mut_FetchQuote_NoFallback(source, file, debug) ==
    IF source = "repo" /\ file.state = "json" /\ file.pool.t = "list" /\ file.pool.items # <<>>
    THEN { [quote |-> file.pool.items[i], via |-> "repo", prints |-> <<>>] :
              i \in 1..Len(file.pool.items) }
    ELSE IF source = "repo"
    THEN { [quote |-> JStr(""), via |-> "raised", prints |-> <<>>] }
    ELSE { [quote |-> JStr(LOCAL_QUOTES[i]), via |-> "local", prints |-> <<>>] :
              i \in 1..Len(LOCAL_QUOTES) }

Mut_FetchQuote_AlwaysLocal(source, file, debug) ==
    { [quote |-> JStr(LOCAL_QUOTES[i]), via |-> "local", prints |-> <<>>] :
         i \in 1..Len(LOCAL_QUOTES) }

FetchQuote(source, file, debug) ==
    LET fallback(pre) ==
            { [quote  |-> JStr(LOCAL_QUOTES[i]),
               via    |-> "local",
               prints |-> pre \o DebugLine(debug, "DEBUG: Falling back to LOCAL_QUOTES...", "")] :
                 i \in 1..Len(LOCAL_QUOTES) }
        attempt == DebugLine(debug, "DEBUG: Attempting to read quotes from", REPO_QUOTES_PATH)
    IN IF source = "repo"
       THEN IF file.state # "json"
            THEN \* open() or json.load() raised: except Exception
                 fallback(attempt \o DebugLine(debug, "DEBUG: Failed to read/parse", file.state))
            ELSE IF file.pool.t = "list" /\ file.pool.items # <<>>
                 THEN { [quote  |-> file.pool.items[i],
                         via    |-> "repo",
                         prints |-> attempt \o DebugLine(debug, "DEBUG: Selected quote from repo:",
                                                         file.pool.items[i].v)] :
                           i \in 1..Len(file.pool.items) }
                 ELSE fallback(attempt \o DebugLine(debug,
                          "DEBUG: Repo quotes file parsed but was not a non-empty list.", ""))
       ELSE fallback(<<>>)

----
\* make_task_payload(due_date)

\* datetime.combine(due_date, time(hour = h))
Combine(d, h) == [year |-> d.year, month |-> d.month, day |-> d.day,
                  hour |-> h, minute |-> 0, second |-> 0]

Mut_PayloadOf_Midnight(due_date, notes) ==
    [type      |-> "todo",
     text      |-> <<"#", " ">> \o Upper(StrftimeA(due_date)),
     notes     |-> notes,
     date      |-> StrftimeIso(Combine(due_date, 0)),
     checklist |-> [i \in 1..Len(CHECKLIST_ITEMS) |-> [text |-> CHECKLIST_ITEMS[i]]],
     priority  |-> HardPriority]

PayloadOf(due_date, notes) ==
    [type      |-> "todo",
     text      |-> <<"#", " ">> \o Upper(StrftimeA(due_date)),
     notes     |-> notes,
     date      |-> StrftimeIso(Combine(due_date, NoonHour)),
     checklist |-> [i \in 1..Len(CHECKLIST_ITEMS) |-> [text |-> CHECKLIST_ITEMS[i]]],
     priority  |-> HardPriority]

MakeTaskPayload(due_date, source, file, debug) ==
    { [payload |-> PayloadOf(due_date, q.quote), via |-> q.via, prints |-> q.prints] :
         q \in FetchQuote(source, file, debug) }

----
\* The task API, as section 6 of the specification describes it: it answers
\* 2xx with a JSON body carrying data.id when it has created the task, and
\* 4xx or 5xx with an error body when it has not.  A redirect is followed
\* inside requests.post, so the status seen is a final one.  status 0 stands
\* for a request that reached no service (requests raises ConnectionError or
\* Timeout, and no task is created).

\* Response.raise_for_status() raises HTTPError
RaisesForStatus(status) == 400 <= status /\ status < 600

\* the service creates the task exactly when it answers 2xx
Accepts(status) == 200 <= status /\ status < 300

----
\* main(), one action per position.

Terminated == pc \in {"done", "exited", "raised"}

\* if not USER_ID or not API_TOKEN: print(...); exit(1)
Mut_CheckCredentials_And ==
    /\ pc = "start"
    /\ IF Falsy(USER_ID) /\ Falsy(API_TOKEN)
       THEN /\ out' = Append(out, Line("ERROR: Set HABITICA_USER_ID and HABITICA_API_TOKEN environment variables.", ""))
            /\ exitCode' = 1
            /\ pc' = "exited"
       ELSE /\ pc' = "today"
            /\ UNCHANGED <<out, exitCode>>
    /\ UNCHANGED <<config, environment, today_pacific, due, payload, quoteVia,
                   result, posts, tasks>>

CheckCredentials ==
    /\ pc = "start"
    /\ IF Falsy(USER_ID) \/ Falsy(API_TOKEN)
       THEN /\ out' = Append(out, Line("ERROR: Set HABITICA_USER_ID and HABITICA_API_TOKEN environment variables.", ""))
            /\ exitCode' = 1
            /\ pc' = "exited"
       ELSE /\ pc' = "today"
            /\ UNCHANGED <<out, exitCode>>
    /\ UNCHANGED <<config, environment, today_pacific, due, payload, quoteVia,
                   result, posts, tasks>>

\* datetime.utcnow().date()
UtcToday(t) == DateOf(DatetimeAt(t, 0))

\* Determine "today" in Pacific time: the value of today_pacific and the
\* lines printed on the way.
Mut_TodayOf_ProcessLocal(zone, t, ptz, debug) ==
    [today |-> DateOf(DatetimeAt(t, ptz)), prints |-> <<>>]

Mut_TodayOf_FallbackFixedOffset(zone, t, ptz, debug) ==
    IF zone = "ok"
    THEN [today  |-> DateOf(DatetimeAt(t, PacificUtcOffset(t))),
          prints |-> DebugLine(debug, "DEBUG: Now in Pacific tz =", "")]
    ELSE [today  |-> DateOf(DatetimeAt(t, -8)),
          prints |-> <<Line("DEBUG: zoneinfo error, falling back to UTC for 'today':", zone)>>]

TodayOf(zone, t, ptz, debug) ==
    IF zone # "no_module"
    THEN IF zone = "ok"
         THEN [today  |-> DateOf(DatetimeAt(t, PacificUtcOffset(t))),
               prints |-> DebugLine(debug, "DEBUG: Now in Pacific tz =", "")]
         ELSE \* ZoneInfo("America/Los_Angeles") raised: except Exception
              [today  |-> UtcToday(t),
               prints |-> DebugLine(debug, "DEBUG: zoneinfo error, falling back to UTC for 'today':", zone)]
    ELSE [today  |-> UtcToday(t),
          prints |-> DebugLine(debug, "DEBUG: zoneinfo not available; falling back to UTC for 'today'.", "")]

DetermineToday ==
    /\ pc = "today"
    /\ LET r == TodayOf(zoneDb, nowUtc, procTz, DEBUG)
       IN /\ today_pacific' = r.today
          /\ out' = out \o r.prints
    /\ pc' = "due"
    /\ UNCHANGED <<config, environment, due, payload, quoteVia, result, posts,
                   tasks, exitCode>>

\* due = today_pacific + timedelta(days=OFFSET_DAYS)
ComputeDue ==
    /\ pc = "due"
    /\ due' = AddDays(today_pacific, OFFSET_DAYS)
    /\ out' = out \o DebugLine(DEBUG, "DEBUG: OFFSET_DAYS, due =", "")
    /\ pc' = "payload"
    /\ UNCHANGED <<config, environment, today_pacific, payload, quoteVia, result,
                   posts, tasks, exitCode>>

\* payload = make_task_payload(due); an error raised inside would end main
BuildPayload ==
    /\ pc = "payload"
    /\ \E r \in MakeTaskPayload(due, QUOTES_SOURCE, quotesFile, DEBUG) :
          /\ quoteVia' = r.via
          /\ out' = out \o r.prints
          /\ IF r.via = "raised"
             THEN /\ pc' = "raised"
                  /\ exitCode' = 1
                  /\ UNCHANGED payload
             ELSE /\ pc' = "post"
                  /\ payload' = r.payload
                  /\ UNCHANGED exitCode
    /\ UNCHANGED <<config, environment, today_pacific, due, result, posts, tasks>>

\* result = create_task(payload): one requests.post; HTTPError prints the
\* response body and is re-raised, any other error of the request propagates
DebugPayloadLines ==
    IF DEBUG
    THEN <<Line("DEBUG: Sending payload to Habitica:", ""), [tag |-> "payload", arg |-> payload]>>
    ELSE <<>>

Mut_CreateTask_Retry ==
    /\ pc = "post"
    /\ IF server.status = 0 \/ RaisesForStatus(server.status)
       THEN /\ posts' = posts \o <<payload, payload>>
            /\ out' = out \o DebugPayloadLines
                          \o <<Line("ERROR response from Habitica:", server.text)>>
            /\ pc' = "raised"
            /\ exitCode' = 1
            /\ UNCHANGED <<tasks, result>>
       ELSE /\ posts' = Append(posts, payload)
            /\ tasks' = Append(tasks, [id |-> server.id, payload |-> payload])
            /\ result' = [data |-> [id |-> server.id]]
            /\ out' = out \o DebugPayloadLines
            /\ pc' = "report"
            /\ UNCHANGED exitCode
    /\ UNCHANGED <<config, environment, today_pacific, due, payload, quoteVia>>

Mut_CreateTask_Swallow ==
    /\ pc = "post"
    /\ posts' = Append(posts, payload)
    /\ tasks' = IF Accepts(server.status)
                THEN Append(tasks, [id |-> server.id, payload |-> payload])
                ELSE tasks
    /\ IF server.status = 0
       THEN /\ out' = out \o DebugPayloadLines
            /\ pc' = "raised"
            /\ exitCode' = 1
            /\ UNCHANGED result
       ELSE /\ out' = out \o DebugPayloadLines
                          \o (IF RaisesForStatus(server.status)
                              THEN <<Line("ERROR response from Habitica:", server.text)>>
                              ELSE <<>>)
            /\ result' = [data |-> [id |-> server.id]]
            /\ pc' = "report"
            /\ UNCHANGED exitCode
    /\ UNCHANGED <<config, environment, today_pacific, due, payload, quoteVia>>

CreateTask ==
    /\ pc = "post"
    /\ posts' = Append(posts, payload)
    /\ tasks' = IF Accepts(server.status)
                THEN Append(tasks, [id |-> server.id, payload |-> payload])
                ELSE tasks
    /\ IF server.status = 0
       THEN \* requests.post raised: nothing is printed, the error propagates
            /\ out' = out \o DebugPayloadLines
            /\ pc' = "raised"
            /\ exitCode' = 1
            /\ UNCHANGED result
       ELSE IF RaisesForStatus(server.status)
       THEN /\ out' = out \o DebugPayloadLines
                          \o <<Line("ERROR response from Habitica:", server.text)>>
            /\ pc' = "raised"
            /\ exitCode' = 1
            /\ UNCHANGED result
       ELSE /\ out' = out \o DebugPayloadLines
            /\ result' = [data |-> [id |-> server.id]]
            /\ pc' = "report"
            /\ UNCHANGED exitCode
    /\ UNCHANGED <<config, environment, today_pacific, due, payload, quoteVia>>

\* print(f"Created: {payload['text']} -> {result['data']['id']}"), and main returns
CreatedLine(text, id) == [tag |-> "Created:", arg |-> id, text |-> text]

\* result['id'] in place of result['data']['id']: KeyError
Mut_ReportCreated_KeyError ==
    /\ pc = "report"
    /\ out' = out
    /\ pc' = "raised"
    /\ exitCode' = 1
    /\ UNCHANGED <<config, environment, today_pacific, due, payload, quoteVia,
                   result, posts, tasks>>

ReportCreated ==
    /\ pc = "report"
    /\ out' = Append(out, CreatedLine(payload.text, result.data.id))
    /\ pc' = "done"
    /\ exitCode' = 0
    /\ UNCHANGED <<config, environment, today_pacific, due, payload, quoteVia,
                   result, posts, tasks>>

Next ==
    \/ CheckCredentials
    \/ DetermineToday
    \/ ComputeDue
    \/ BuildPayload
    \/ CreateTask
    \/ ReportCreated

----
\* Inputs of a run.

\* Days around which the run is placed: 30 days before Sunday 2024-01-07, the
\* end of February in a leap year and in 2100, the two days Pacific time
\* changes its offset, and the last day of a year.
AnchorDates == {
    [year |-> 2023, month |-> 12, day |-> 8],
    [year |-> 2024, month |-> 2,  day |-> 28],
    [year |-> 2024, month |-> 3,  day |-> 10],
    [year |-> 2024, month |-> 11, day |-> 3],
    [year |-> 2024, month |-> 12, day |-> 31],
    [year |-> 2100, month |-> 2,  day |-> 28] }

\* Hours of the day (UTC): Pacific midnight falls at 07:00 or 08:00 UTC.
AnchorHours == {0, 7, 8, 9, 10, 12}

AllInstants ==
    { (ToOrdinal(a) + w) * 24 + h : a \in AnchorDates, w \in 0..DayWindow, h \in AnchorHours }
OneInstant == { ToOrdinal([year |-> 2023, month |-> 12, day |-> 8]) * 24 + 7 }

AllOffsets == (-MaxOffset..MaxOffset) \cup {DefaultOffsetDays}

AllZoneDbs == {"ok", "no_module", "no_tzdata"}
AllProcTzs == {0, 9}

EnvValues == {None, "", "set"}
AllCredentials == EnvValues \X EnvValues
SomeCredentials == {<<"set", "set">>, <<None, "set">>}

\* Elements a JSON list in quotes.json may hold.
PoolElements == {JStr("a"), JStr("b"), JStr(""), JNull}

RECURSIVE SeqsUpTo(_, _)
SeqsUpTo(S, n) ==
    IF n = 0 THEN {<<>>}
    ELSE LET shorter == SeqsUpTo(S, n - 1)
         IN shorter \cup { Append(q, e) : q \in {x \in shorter : Len(x) = n - 1}, e \in S }

QuotesFileOf(state, pool) == [state |-> state, pool |-> pool]

\* quotes.json absent, unreadable, not JSON, JSON but not a list, or a list
AllQuotesFiles ==
    { QuotesFileOf(st, JNull) : st \in {"absent", "unreadable", "badjson"} }
    \cup { QuotesFileOf("json", v) : v \in {JDict, JStr("a"), JNull} }
    \cup { QuotesFileOf("json", JList(xs)) : xs \in SeqsUpTo(PoolElements, MaxPoolLen) }
SomeQuotesFiles ==
    { QuotesFileOf("absent", JNull), QuotesFileOf("json", JList(<<JStr("a"), JStr("b")>>)) }

AllSources == {"repo", "local", "zenquotes"}
SomeSources == {"repo", "local"}

ServerOf(status, id, text) == [status |-> status, id |-> id, text |-> text]
AllServers ==
    { ServerOf(st, id, "{\"success\":true}") : st \in {200, 201}, id \in {"t1", "t2"} }
    \cup { ServerOf(st, "", "{\"success\":false}") : st \in {400, 401, 404, 429, 500, 503} }
    \cup { ServerOf(0, "", "") }
SomeServers ==
    { ServerOf(201, "t1", "{\"success\":true}"), ServerOf(401, "", "{\"success\":false}") }

InitWith(creds, offsets, sources, debugs, zones, instants, ptzs, files, servers) ==
    /\ \E c \in creds : USER_ID = c[1] /\ API_TOKEN = c[2]
    /\ OFFSET_DAYS \in offsets
    /\ QUOTES_SOURCE \in sources
    /\ DEBUG \in debugs
    /\ zoneDb \in zones
    /\ nowUtc \in instants
    /\ procTz \in ptzs
    /\ quotesFile \in files
    /\ server \in servers
    /\ pc = "start"
    /\ today_pacific = NoDate
    /\ due = NoDate
    /\ payload = NoPayload
    /\ quoteVia = ""
    /\ result = NoResult
    /\ out = <<>>
    /\ posts = <<>>
    /\ tasks = <<>>
    /\ exitCode = -1

\* Every configuration of the credentials and every answer of the service.
Init ==
    InitWith(AllCredentials, {DefaultOffsetDays}, SomeSources, BOOLEAN, AllZoneDbs,
             OneInstant, {0}, SomeQuotesFiles, AllServers)

Spec == Init /\ [][Next]_vars

\* Every state of quotes.json and every quote source.
InitQuotes ==
    InitWith(SomeCredentials, {DefaultOffsetDays}, AllSources, BOOLEAN, {"ok", "no_module"},
             OneInstant, {0}, AllQuotesFiles, SomeServers)

SpecQuotes == InitQuotes /\ [][Next]_vars

\* Every instant, offset, zone database and process time zone.
InitDates ==
    InitWith(SomeCredentials, AllOffsets, {"local"}, BOOLEAN, AllZoneDbs,
             AllInstants, AllProcTzs, {QuotesFileOf("absent", JNull)}, SomeServers)

SpecDates == InitDates /\ [][Next]_vars

----
\* Helpers of the properties, written independently of the program's own
\* computations.

CredentialsPresent == ~Falsy(USER_ID) /\ ~Falsy(API_TOKEN)

HasLine(tag) == \E i \in 1..Len(out) : out[i].tag = tag
LastLine == out[Len(out)]

DigitVal(c) == CHOOSE n \in 0..9 : Digits[n + 1] = c
Num(s) == IF Len(s) = 2 THEN DigitVal(s[1]) * 10 + DigitVal(s[2])
          ELSE DigitVal(s[1]) * 1000 + DigitVal(s[2]) * 100 + DigitVal(s[3]) * 10 + DigitVal(s[4])

\* The calendar day and the hour an ISO timestamp "YYYY-MM-DDTHH:MM:SS.000Z" names.
IsoDay(s) == [year  |-> Num(SubSeq(s, 1, 4)), month |-> Num(SubSeq(s, 6, 7)),
              day   |-> Num(SubSeq(s, 9, 10))]
IsoHour(s) == Num(SubSeq(s, 12, 13))

\* Zeller's congruence: 0 is Saturday, 1 Sunday, ..., 6 Friday.
Zeller(d) ==
    LET m == IF d.month < 3 THEN d.month + 12 ELSE d.month
        y == IF d.month < 3 THEN d.year - 1 ELSE d.year
        k == y % 100
        j == y \div 100
    IN (d.day + ((13 * (m + 1)) \div 5) + k + (k \div 4) + (j \div 4) + 5 * j) % 7

UpperDayNames == <<
    <<"S", "A", "T", "U", "R", "D", "A", "Y">>,
    <<"S", "U", "N", "D", "A", "Y">>,
    <<"M", "O", "N", "D", "A", "Y">>,
    <<"T", "U", "E", "S", "D", "A", "Y">>,
    <<"W", "E", "D", "N", "E", "S", "D", "A", "Y">>,
    <<"T", "H", "U", "R", "S", "D", "A", "Y">>,
    <<"F", "R", "I", "D", "A", "Y">> >>

ValidDate(d) == /\ d.month \in 1..12
                /\ d.day \in 1..DaysInMonth(d.year, d.month)

\* The ordinal of the calendar day at instant t in a zone of UTC offset off.
ZoneDay(t, off) == (t + off) \div 24

Sunday20240107 == [year |-> 2024, month |-> 1, day |-> 7]

QuotesFileIsNonEmptyList ==
    /\ quotesFile.state = "json"
    /\ quotesFile.pool.t = "list"
    /\ quotesFile.pool.items # <<>>

LocalQuoteValues == { JStr(LOCAL_QUOTES[i]) : i \in 1..Len(LOCAL_QUOTES) }

FallbackNotes == {"DEBUG: zoneinfo error, falling back to UTC for 'today':",
                  "DEBUG: zoneinfo not available; falling back to UTC for 'today'."}

----
\* C1: a run issues the task-creation POST at most once, never again after a
\* failed attempt; a run with credentials whose POST succeeds creates exactly
\* one Todo, for the due date computed in that run.
C1_AtMostOnePost ==
    /\ Len(posts) <= 1
    /\ Len(tasks) <= Len(posts)
    /\ (pc = "raised" => Len(posts) = 1 /\ tasks = <<>>)
    /\ (CredentialsPresent /\ Accepts(server.status) /\ Terminated =>
            /\ Len(posts) = 1
            /\ Len(tasks) = 1
            /\ tasks[1].payload = posts[1]
            /\ IsoDay(tasks[1].payload.date) = due
            /\ due = AddDays(today_pacific, OFFSET_DAYS))

C1_Witness ==
    /\ pc = "done"
    /\ Len(tasks) = 1
    /\ Len(posts) = 1
    /\ IsoDay(tasks[1].payload.date) = due

\* C2: with HABITICA_USER_ID or HABITICA_API_TOKEN absent or empty, main
\* prints the error and exits with code 1 before any network activity: no
\* POST, no quote fetched, no payload built.
C2_MissingCredentialsExit ==
    ~CredentialsPresent =>
        /\ pc \in {"start", "exited"}
        /\ posts = <<>>
        /\ tasks = <<>>
        /\ payload = NoPayload
        /\ quoteVia = ""
        /\ (pc = "start" => out = <<>> /\ exitCode = -1)
        /\ (pc = "exited" =>
               /\ exitCode = 1
               /\ out = <<Line("ERROR: Set HABITICA_USER_ID and HABITICA_API_TOKEN environment variables.", "")>>)

C2_Witness ==
    /\ USER_ID = "set"
    /\ API_TOKEN = ""
    /\ pc = "exited"
    /\ exitCode = 1

C4_NotesNonEmptyString ==
    \A i \in 1..Len(posts) : posts[i].notes.t = "str" /\ posts[i].notes.v # ""

\* C5: with source "repo" and quotes.json a non-empty list, fetch_quote
\* returns an element of that list, never one taken from LOCAL_QUOTES, and
\* every element of the list is a possible result.
C5_RepoQuoteFromFile ==
    (QUOTES_SOURCE = "repo" /\ QuotesFileIsNonEmptyList) =>
        /\ (quoteVia # "" =>
               /\ quoteVia = "repo"
               /\ \E i \in 1..Len(quotesFile.pool.items) : payload.notes = quotesFile.pool.items[i])
        /\ (pc = "payload" =>
               \A i \in 1..Len(quotesFile.pool.items) :
                   ENABLED (BuildPayload /\ payload'.notes = quotesFile.pool.items[i]))

C5_Witness ==
    /\ QUOTES_SOURCE = "repo"
    /\ quotesFile = QuotesFileOf("json", JList(<<JStr("a"), JStr("b")>>))
    /\ payload.notes = JStr("b")
    /\ quoteVia = "repo"
    /\ pc = "done"

\* C10: when quotes.json is missing, unreadable, not JSON, not a list or an
\* empty list, fetch_quote raises nothing and returns an entry of
\* LOCAL_QUOTES, and the run goes on to build and submit the payload.
C10_QuoteFailureRecovered ==
    (QUOTES_SOURCE = "repo" /\ ~QuotesFileIsNonEmptyList /\ CredentialsPresent) =>
        /\ (pc = "payload" => ENABLED BuildPayload)
        /\ (quoteVia # "" =>
               /\ quoteVia = "local"
               /\ payload.notes \in LocalQuoteValues
               /\ payload.notes.v # ""
               /\ pc \in {"post", "report", "done", "raised"})
        /\ (pc = "post" => ENABLED CreateTask)
        /\ (pc = "raised" => Len(posts) = 1)
        /\ (Terminated => Len(posts) = 1 /\ posts[1].notes \in LocalQuoteValues)

C10_Witness ==
    /\ QUOTES_SOURCE = "repo"
    /\ quotesFile.state = "badjson"
    /\ pc = "done"
    /\ quoteVia = "local"
    /\ payload.notes = JStr(LOCAL_QUOTES[5])

\* C6: when America/Los_Angeles resolves, the due date is exactly OFFSET_DAYS
\* calendar days after the calendar date of 'now' in that zone, whatever the
\* process's own time zone and the UTC calendar date are.
C6_DueIsPacificDayPlusOffset ==
    (zoneDb = "ok" /\ due # NoDate) =>
        /\ ValidDate(due)
        /\ ToOrdinal(due) = ZoneDay(nowUtc, PacificUtcOffset(nowUtc)) + OFFSET_DAYS
        /\ ToOrdinal(due) - ToOrdinal(today_pacific) = OFFSET_DAYS
        \* 2023-12-09 07:00 UTC is 2023-12-08 23:00 in Los Angeles
        /\ (nowUtc = ToOrdinal([year |-> 2023, month |-> 12, day |-> 9]) * 24 + 7
              /\ OFFSET_DAYS = DefaultOffsetDays => due = Sunday20240107)
        \* 2024-03-10 10:00 UTC is 03:00 PDT, 2024-11-03 09:00 UTC is 01:00 PST
        /\ (nowUtc = ToOrdinal([year |-> 2024, month |-> 3, day |-> 11]) * 24 + 7
              /\ OFFSET_DAYS = 0 => due = [year |-> 2024, month |-> 3, day |-> 11])
        /\ (nowUtc = ToOrdinal([year |-> 2024, month |-> 11, day |-> 4]) * 24 + 7
              /\ OFFSET_DAYS = 0 => due = [year |-> 2024, month |-> 11, day |-> 3])

C6_Witness ==
    /\ zoneDb = "ok"
    /\ pc = "done"
    /\ procTz = 9
    /\ OFFSET_DAYS = DefaultOffsetDays
    /\ due = Sunday20240107
    /\ due # AddDays(UtcToday(nowUtc), OFFSET_DAYS)

\* C7: make_task_payload's text is "# " and the upper-case weekday name of
\* the due date, and its date names the same calendar day at 12:00:00.000Z;
\* 2024-01-07 gives "# SUNDAY" and "2024-01-07T12:00:00.000Z".
C7_TitleAndNoonTimestamp ==
    (payload # NoPayload) =>
        /\ payload.text = <<"#", " ">> \o UpperDayNames[Zeller(due) + 1]
        /\ Len(payload.date) = 24
        /\ IsoDay(payload.date) = due
        /\ IsoHour(payload.date) = 12
        /\ SubSeq(payload.date, 11, 24) = <<"T", "1", "2", ":", "0", "0", ":", "0", "0", ".", "0", "0", "0", "Z">>
        /\ (due = Sunday20240107 =>
               /\ payload.text = <<"#", " ", "S", "U", "N", "D", "A", "Y">>
               /\ payload.date = <<"2", "0", "2", "4", "-", "0", "1", "-", "0", "7", "T", "1", "2", ":", "0", "0", ":", "0", "0", ".", "0", "0", "0", "Z">>)

C7_Witness ==
    /\ due = Sunday20240107
    /\ payload.text = <<"#", " ", "S", "U", "N", "D", "A", "Y">>
    /\ payload.date = <<"2", "0", "2", "4", "-", "0", "1", "-", "0", "7", "T", "1", "2", ":", "0", "0", ":", "0", "0", ".", "0", "0", "0", "Z">>
    /\ pc = "done"

\* C9: with the zone database unavailable (no zoneinfo module, or resolving
\* the zone raises) main does not fail: 'today' is the UTC calendar date, due
\* is that date plus OFFSET_DAYS, the task is built and submitted, and the
\* note about the fallback is printed only when DEBUG is set.
C9_UtcFallback ==
    (zoneDb # "ok" /\ CredentialsPresent) =>
        /\ (today_pacific # NoDate => ToOrdinal(today_pacific) = ZoneDay(nowUtc, 0))
        /\ (due # NoDate => ValidDate(due) /\ ToOrdinal(due) = ZoneDay(nowUtc, 0) + OFFSET_DAYS)
        /\ (pc = "raised" => Len(posts) = 1)
        /\ (Terminated => Len(posts) = 1 /\ IsoDay(posts[1].date) = due)
        /\ ((\E t \in FallbackNotes : HasLine(t)) => DEBUG)

C9_Witness ==
    /\ zoneDb = "no_tzdata"
    /\ DEBUG
    /\ HasLine("DEBUG: zoneinfo error, falling back to UTC for 'today':")
    /\ pc = "done"
    /\ ToOrdinal(due) # ZoneDay(nowUtc, PacificUtcOffset(nowUtc)) + OFFSET_DAYS

====
